---- MODULE Spec2Model ----
(***************************************************************************)
(* A model of instreclib::reconstruction::Track                            *)
(* (src/DynSLAM/InstRecLib/Track.h).                                       *)
(*                                                                         *)
(* The variables are the private fields of one Track object, plus what the *)
(* outside world observes of a call: the value it returned, the weight the *)
(* reconstruction volume was asked to reap with, who else holds a volume,  *)
(* which volumes were freed, what was written to stderr, and whether the   *)
(* track and the process are still alive.  Every public operation of the   *)
(* class is one action.                                                    *)
(*                                                                         *)
(* Track::Update, Track::ScoreMatch and Track::GetFramePose are declared   *)
(* in Track.h and defined in Track.cpp, which is not among the sources;    *)
(* Update and ScoreMatch are modelled from section 4 of spec.md.           *)
(*                                                                         *)
(* Lengths are in hundredths of a length unit (0.20f is 20).               *)
(***************************************************************************)
EXTENDS Integers, Sequences, FiniteSets, TLC

VARIABLES
  id_,                      \* int id_
  frames_,                  \* std::vector<TrackFrame> frames_
  reconstruction_,          \* std::shared_ptr<InfiniTamDriver> reconstruction_
  needs_cleanup_,           \* bool needs_cleanup_
  track_state_,             \* TrackState track_state_
  last_known_motion_time_,  \* int last_known_motion_time_
  fused_frames_,            \* int fused_frames_
  uncertain_frames,         \* the "uncertain-frame" counter of spec.md 4.2
  reaped,                   \* the weight of the volume's latest Reap call, if any
  shared,                   \* the volumes a shared_ptr other than the track's holds
  released,                 \* the volumes whose last shared_ptr is gone
  stderr_out,               \* the ids of the "Deleting track [id] ..." lines on stderr
  ret,                      \* what the call just made returned
  pc                        \* "live"; "destroyed" after ~Track; "aborted" after a failed
                            \* assertion; "crashed" once the process has died otherwise

vars == <<id_, frames_, reconstruction_, needs_cleanup_, track_state_,
          last_known_motion_time_, fused_frames_, uncertain_frames,
          reaped, shared, released, stderr_out, ret, pc>>

-----------------------------------------------------------------------------
(* Bounds of the model. *)

\* Frames a track holds at most, under Spec.
MaxFrames == 2
\* Volumes the driver attaches one after the other, under SpecReap.
MaxReapVolumes == 2
\* Frames a track holds at most, under SpecPose.
MaxPoseFrames == 3
\* Frames a track holds at most, under SpecOrder.
MaxOrderFrames == 2
\* Frame indices the driver hands to AddFrame are 0..MaxFrameIdx, under SpecOrder.
MaxFrameIdx == 1
\* CountFusedFrame calls at most, under Spec.
MaxFused == 1
\* Reconstruction volumes the driver can attach are 1..MaxVolumes.
MaxVolumes == 1
\* CountFusedFrame calls at most, under SpecReap.
MaxFusedReap == 20
\* Frames a track holds at most, under SpecEligible.
MaxEligibleFrames == 7
\* Frames a track holds at most, under SpecLife.
MaxLifeFrames == 1
\* Track ids the driver hands to the constructor are 0..MaxId, under SpecLife.
MaxId == 1

-----------------------------------------------------------------------------
(* Constants and types of Track.h. *)

\* enum TrackState
kStatic == "kStatic"
kDynamic == "kDynamic"
kUncertain == "kUncertain"
TrackState == {kStatic, kDynamic, kUncertain}

\* int kMaxUncertainFramesStatic = 3;
kMaxUncertainFramesStatic_OffByOne == 3 - 1
kMaxUncertainFramesStatic == 3
\* int kMaxUncertainFramesDynamic = 2;
kMaxUncertainFramesDynamic_AsStatic == kMaxUncertainFramesStatic
kMaxUncertainFramesDynamic == 2
\* float kTransErrorTreshold = 0.20f;
kTransErrorTreshold_Hundredth == 20 \div 10
kTransErrorTreshold_Doubled == 2 * 20
kTransErrorTreshold == 20

\* reconstruction_ == nullptr
NullVolume == 0
\* last_known_motion_time_ = -1
NoMotionTime == 0 - 1
\* No Reap call has reached a volume yet.
NoReap == 0 - 1

(* TrackFrame::relative_pose is a raw pointer to an Option<Matrix4d>.  The *)
(* constructor of TrackFrame does not initialise it: "unset" is that        *)
(* indeterminate pointer, "absent" and "present" are a pointer to an empty  *)
(* and to a filled Option.                                                  *)
PoseStates == {"unset", "absent", "present"}

\* struct TrackFrame, by the two fields the operations of Track.h read.
TrackFrame(idx, pose) == [frame_idx |-> idx, relative_pose |-> pose]

\* The frames the driver can hand to AddFrame, with frame indices up to maxIdx.
FrameInputs(maxIdx) == {TrackFrame(i, p) : i \in 0..maxIdx, p \in PoseStates}

\* The frames the driver can hand to a track next when it works in frame order.
NextFrameInputs == {TrackFrame(Len(frames_), p) : p \in PoseStates}

\* The residual translation magnitudes Update can compute.
Residuals == {5, 20, 35}

Max(a, b) == IF a >= b THEN a ELSE b
Min(a, b) == IF a <= b THEN a ELSE b

\* A call that returned nothing, one that returned an int.
NoRet == [kind |-> "void", val |-> 0]
IntRet(n) == [kind |-> "int", val |-> n]
\* A call that returned an Option<Matrix4d>: a present one, an empty one.
PresentPose == [kind |-> "option", val |-> 1]
AbsentPose == [kind |-> "option", val |-> 0]
\* A call that returned a reference to the frame at a position, a class name.
FrameRet(i) == [kind |-> "frame", val |-> i]
ClassNameRet(i) == [kind |-> "string", val |-> i]
\* A call that returned whatever lies in memory that holds no frame.
Garbage == [kind |-> "garbage", val |-> 0]
\* A call that died reading memory it must not read.
Segv == [kind |-> "segv", val |-> 0]

-----------------------------------------------------------------------------
\* A constructor that leaves a cleanup pending.
Track_CleanupPending(id) ==
  /\ id_ = id
  /\ frames_ = <<>>
  /\ reconstruction_ = 0
  /\ needs_cleanup_ = TRUE
  /\ track_state_ = kUncertain
  /\ last_known_motion_time_ = 0 - 1
  /\ fused_frames_ = 0
  /\ uncertain_frames = 0
  /\ reaped = 0 - 1
  /\ shared = {}
  /\ released = {}
  /\ stderr_out = <<>>
  /\ ret = NoRet
  /\ pc = "live"

(* Track(int id) : id_(id), reconstruction_(nullptr), needs_cleanup_(false),  *)
(*                 track_state_(TrackState::kUncertain) {}                     *)
(* with the default member initialisers last_known_motion_time_ = -1 and       *)
(* fused_frames_ = 0, and frames_ default-constructed.                         *)
Track(id) ==
  /\ id_ = id
  /\ frames_ = <<>>
  /\ reconstruction_ = NullVolume
  /\ needs_cleanup_ = FALSE
  /\ track_state_ = kUncertain
  /\ last_known_motion_time_ = NoMotionTime
  /\ fused_frames_ = 0
  /\ uncertain_frames = 0
  /\ reaped = NoReap
  /\ shared = {}
  /\ released = {}
  /\ stderr_out = <<>>
  /\ ret = NoRet
  /\ pc = "live"

\* The state after construction of the driver's first track, and with any id.
Init == Track(0)
InitAnyId == \E id \in 0..MaxId : Track(id)

-----------------------------------------------------------------------------
(* Getters. *)
GetSize == Len(frames_)
GetState == track_state_
HasReconstruction == reconstruction_ # NullVolume
NeedsCleanup == needs_cleanup_
\* EligibleForReconstruction that asks for more than k frames.
EligibleForReconstruction_Strict == GetSize > 6
\* bool EligibleForReconstruction() const { return GetSize() >= 6; }
EligibleForReconstruction == GetSize >= 6
\* frames_.front().frame_idx and frames_.back().frame_idx, of a track with frames
GetStartTime == frames_[1].frame_idx
GetEndTime == frames_[Len(frames_)].frame_idx

-----------------------------------------------------------------------------
\* AddFrame that overwrites the last frame of a track that has one.
AddFrame_ReplacesLast(new_frame) ==
  /\ pc = "live"
  /\ frames_' = IF Len(frames_) > 0
                THEN [frames_ EXCEPT ![Len(frames_)] = new_frame]
                ELSE <<new_frame>>
  /\ ret' = NoRet
  /\ UNCHANGED <<id_, shared, released, stderr_out,
                 reconstruction_, needs_cleanup_, track_state_,
                 last_known_motion_time_, fused_frames_, uncertain_frames, reaped, pc>>

\* AddFrame that starts the track's state over.
AddFrame_ResetsState(new_frame) ==
  /\ pc = "live"
  /\ frames_' = Append(frames_, new_frame)
  /\ track_state_' = kUncertain
  /\ ret' = NoRet
  /\ UNCHANGED <<id_, shared, released, stderr_out,
                 reconstruction_, needs_cleanup_,
                 last_known_motion_time_, fused_frames_, uncertain_frames, reaped, pc>>

\* AddFrame that inserts at the front.
AddFrame_Front(new_frame) ==
  /\ pc = "live"
  /\ frames_' = <<new_frame>> \o frames_
  /\ ret' = NoRet
  /\ UNCHANGED <<id_, shared, released, stderr_out,
                 reconstruction_, needs_cleanup_, track_state_,
                 last_known_motion_time_, fused_frames_, uncertain_frames, reaped, pc>>

(* void AddFrame(const TrackFrame& new_frame) { frames_.push_back(new_frame); } *)
AddFrame(new_frame) ==
  /\ pc = "live"
  /\ frames_' = Append(frames_, new_frame)
  /\ ret' = NoRet
  /\ UNCHANGED <<id_, shared, released, stderr_out,
                 reconstruction_, needs_cleanup_, track_state_,
                 last_known_motion_time_, fused_frames_, uncertain_frames, reaped, pc>>

-----------------------------------------------------------------------------
(* void Update(egomotion, ssf_provider, verbose); defined in Track.cpp,     *)
(* modelled from spec.md 4.2.  The call's inputs are reduced to what the    *)
(* transition policy reads: whether the scene-flow provider produced a      *)
(* relative pose, and the residual translation magnitude of that pose.      *)

(* 4.2 step 2: the evidence one frame gives.  "below" and "above" are the   *)
(* two sides of translation_error_threshold; spec.md does not say which     *)
(* side a magnitude equal to the threshold falls on, so it may fall on      *)
(* either.  "none" is a frame whose relative pose is unavailable.           *)
Evidence(available, residual) ==
  IF ~available THEN {"none"}
  ELSE IF residual < kTransErrorTreshold THEN {"below"}
  ELSE IF residual > kTransErrorTreshold THEN {"above"}
  ELSE {"below", "above"}

\* 4.2 step 3: the number of uncertain frames tolerated in a state.
MaxUncertainFrames(state) ==
  IF state = kStatic THEN kMaxUncertainFramesStatic ELSE kMaxUncertainFramesDynamic

\* NextTrackState with Dynamic demoted to Static by one low-residual frame.
NextTrackState_Symmetric(state, count, evidence) ==
  IF evidence = "below" THEN kStatic
  ELSE IF evidence = "above" THEN kDynamic
  ELSE IF state # kUncertain /\ count + 1 > MaxUncertainFrames(state) THEN kUncertain
  ELSE state

\* 4.2 step 3: the state after a frame with the given evidence.
NextTrackState(state, count, evidence) ==
  CASE state = kUncertain ->
         IF evidence = "below" THEN kStatic
         ELSE IF evidence = "above" THEN kDynamic
         ELSE kUncertain
    [] state = kStatic ->
         IF evidence = "above" THEN kDynamic
         ELSE IF evidence = "none" /\ count + 1 > MaxUncertainFrames(kStatic) THEN kUncertain
         ELSE kStatic
    [] state = kDynamic ->
         IF evidence = "none" /\ count + 1 > MaxUncertainFrames(kDynamic) THEN kUncertain
         ELSE kDynamic

(* 4.2 step 3: the uncertain-frame counter after that frame.  It counts     *)
(* the consecutive frames without a relative pose seen in Static or         *)
(* Dynamic: a frame with a pose, and any change of state, restart it.       *)
NextUncertainFrames(state, count, evidence) ==
  IF /\ evidence = "none"
     /\ state # kUncertain
     /\ NextTrackState(state, count, evidence) = state
  THEN count + 1
  ELSE 0

(* Update is called for a track that received a new TrackFrame (4.2), so    *)
(* the track has frames.  Step 4 stores the relative pose, or its absence,  *)
(* in the latest frame and keeps the time of the last known motion.         *)
Update(available, residual) ==
  /\ pc = "live"
  /\ Len(frames_) > 0
  /\ \E evidence \in Evidence(available, residual) :
       /\ track_state_' = NextTrackState(track_state_, uncertain_frames, evidence)
       /\ uncertain_frames' = NextUncertainFrames(track_state_, uncertain_frames, evidence)
  /\ frames_' = [frames_ EXCEPT ![Len(frames_)].relative_pose =
                   IF available THEN "present" ELSE "absent"]
  /\ last_known_motion_time_' =
       IF available THEN Len(frames_) - 1 ELSE last_known_motion_time_
  /\ ret' = NoRet
  /\ UNCHANGED <<id_, shared, released, stderr_out,
                 reconstruction_, needs_cleanup_, fused_frames_, reaped, pc>>

(* float ScoreMatch(const TrackFrame& new_frame) const; defined in          *)
(* Track.cpp.  A const member function: it writes no field of the track     *)
(* (spec.md 4.1: no side effects).  The score itself is not modelled.       *)
ScoreMatch(new_frame) ==
  /\ pc = "live"
  /\ Len(frames_) > 0
  /\ ret' = NoRet
  /\ UNCHANGED <<id_, shared, released, stderr_out,
                 frames_, reconstruction_, needs_cleanup_, track_state_,
                 last_known_motion_time_, fused_frames_, uncertain_frames, reaped, pc>>

-----------------------------------------------------------------------------
\* An assignment of the volume that starts the count of fused frames over.
AssignReconstruction_ResetsFused(volume, kept) ==
  /\ pc = "live"
  /\ volume \notin released
  /\ reconstruction_' = volume
  /\ fused_frames_' = IF volume = reconstruction_ THEN fused_frames_ ELSE 0
  /\ shared' = IF volume = 0 THEN shared
               ELSE IF kept THEN shared \cup {volume}
               ELSE shared \ {volume}
  /\ released' = IF /\ reconstruction_ # 0
                    /\ reconstruction_ # volume
                    /\ reconstruction_ \notin shared
                 THEN released \cup {reconstruction_}
                 ELSE released
  /\ ret' = NoRet
  /\ UNCHANGED <<id_, frames_, needs_cleanup_, track_state_, last_known_motion_time_,
                 uncertain_frames, reaped, stderr_out, pc>>

(* std::shared_ptr<InfiniTamDriver>& GetReconstruction() { return reconstruction_; } *)
(* The caller assigns through the reference: a volume it holds, or nullptr,  *)
(* and keeps its own shared_ptr to that volume or lets it go.  The track's   *)
(* hold on the volume it had is dropped by the assignment, which frees that  *)
(* volume when nobody else holds it.  A freed volume cannot be attached.     *)
AssignReconstruction(volume, kept) ==
  /\ pc = "live"
  /\ volume \notin released
  /\ reconstruction_' = volume
  /\ shared' = IF volume = NullVolume THEN shared
               ELSE IF kept THEN shared \cup {volume}
               ELSE shared \ {volume}
  /\ released' = IF /\ reconstruction_ # NullVolume
                    /\ reconstruction_ # volume
                    /\ reconstruction_ \notin shared
                 THEN released \cup {reconstruction_}
                 ELSE released
  /\ ret' = NoRet
  /\ UNCHANGED <<id_, frames_, needs_cleanup_, track_state_, last_known_motion_time_,
                 fused_frames_, uncertain_frames, reaped, stderr_out, pc>>

(* void SetNeedsCleanup(bool needs_cleanup) { this->needs_cleanup_ = needs_cleanup; } *)
SetNeedsCleanup(needs_cleanup) ==
  /\ pc = "live"
  /\ needs_cleanup_' = needs_cleanup
  /\ ret' = NoRet
  /\ UNCHANGED <<id_, shared, released, stderr_out,
                 frames_, reconstruction_, track_state_, last_known_motion_time_,
                 fused_frames_, uncertain_frames, reaped, pc>>

(* void CountFusedFrame() { fused_frames_++; } *)
CountFusedFrame ==
  /\ pc = "live"
  /\ fused_frames_' = fused_frames_ + 1
  /\ ret' = NoRet
  /\ UNCHANGED <<id_, shared, released, stderr_out,
                 frames_, reconstruction_, needs_cleanup_, track_state_,
                 last_known_motion_time_, uncertain_frames, reaped, pc>>

\* ReapWeight that rounds to nearest, and ReapWeight without its lower clamp.
ReapWeight_Rounded(fused_frames) == Max(1, Min(5, (33 * fused_frames + 50) \div 100))
ReapWeight_NoLowerClamp(fused_frames) == Min(5, (33 * fused_frames) \div 100)

(* int reap_weight = max(1, min(5, static_cast<int>(0.33 * fused_frames_)));  *)
(* The conversion to int truncates; fused_frames_ is never negative, so the  *)
(* truncation is the floor of 33 * fused_frames_ / 100.  (0.33 * n in double *)
(* is off from 33n/100 by far less than the distance of 33n/100 to the next  *)
(* integer, for every n that is not a multiple of 100.)                      *)
ReapWeight(fused_frames) == Max(1, Min(5, (33 * fused_frames) \div 100))

\* A reap that takes the cleanup for done.
ReapReconstruction_ClearsCleanup ==
  /\ pc = "live"
  /\ ret' = NoRet
  /\ needs_cleanup_' = FALSE
  /\ IF reconstruction_ # 0
     THEN /\ reaped' = Max(1, Min(5, (33 * fused_frames_) \div 100))
          /\ pc' = pc
     ELSE /\ reaped' = reaped
          /\ pc' \in {"crashed", "live"}
  /\ UNCHANGED <<id_, shared, released, stderr_out,
                 frames_, reconstruction_, track_state_,
                 last_known_motion_time_, fused_frames_, uncertain_frames>>

(* void ReapReconstruction(): reconstruction_->Reap(reap_weight).  With no   *)
(* volume attached the call goes through a null shared_ptr: undefined        *)
(* behaviour, of which a build shows a crash, or a return with nothing done. *)
ReapReconstruction ==
  /\ pc = "live"
  /\ ret' = NoRet
  /\ IF reconstruction_ # NullVolume
     THEN /\ reaped' = ReapWeight(fused_frames_)
          /\ pc' = pc
     ELSE /\ reaped' = reaped
          /\ pc' \in {"crashed", "live"}
  /\ UNCHANGED <<id_, shared, released, stderr_out,
                 frames_, reconstruction_, needs_cleanup_, track_state_,
                 last_known_motion_time_, fused_frames_, uncertain_frames>>

-----------------------------------------------------------------------------
(* int GetFirstFusableFrameIndex() const                                     *)

(* The for loop from position i (0-based) on: the set of values the call can *)
(* return, with Segv for a crash.  frames_[i].relative_pose->IsPresent() on  *)
(* a frame whose relative_pose was never set reads through an indeterminate  *)
(* pointer: it crashes, or yields either truth value.                        *)
RECURSIVE ScanFrom(_, _)
ScanFrom(frames, i) ==
  IF ~(i < Len(frames)) THEN {IntRet(0 - 1)}
  ELSE LET pose == frames[i + 1].relative_pose
           hit == {IntRet(Max(0, i - 1))}
           rest == ScanFrom(frames, i + 1)
       IN CASE pose = "present" -> hit
            [] pose = "absent" -> rest
            [] pose = "unset" -> {Segv} \cup hit \cup rest

FirstFusableFrameIndex(frames) ==
  IF frames = <<>> THEN {IntRet(0 - 1)} ELSE ScanFrom(frames, 0)

GetFirstFusableFrameIndex ==
  /\ pc = "live"
  /\ \E r \in FirstFusableFrameIndex(frames_) :
       /\ ret' = r
       /\ pc' = IF r = Segv THEN "crashed" ELSE pc
  /\ UNCHANGED <<id_, shared, released, stderr_out,
                 frames_, reconstruction_, needs_cleanup_, track_state_,
                 last_known_motion_time_, fused_frames_, uncertain_frames, reaped>>

-----------------------------------------------------------------------------
(* dynslam::utils::Option<Eigen::Matrix4d> GetFramePose(size_t frame_idx)    *)
(* const; defined in Track.cpp, modelled from spec.md 4.4.                   *)

(* The composition of the inter-frame relative poses from link i on, up to   *)
(* the frame at position k (0-based; link i is the relative pose stored in   *)
(* the frame at position i, that of frame i with respect to frame i - 1):    *)
(* the set of values the call can return.  The composition stops at the      *)
(* first absent link.  Reading the link of a frame whose relative_pose was   *)
(* never set goes through an indeterminate pointer, as in                    *)
(* GetFirstFusableFrameIndex: it crashes, or yields either truth value.      *)
RECURSIVE ComposeFrom(_, _, _)
ComposeFrom(frames, i, k) ==
  IF i > k THEN {PresentPose}
  ELSE LET pose == frames[i + 1].relative_pose
           rest == ComposeFrom(frames, i + 1, k)
       IN CASE pose = "present" -> rest
            [] pose = "absent" -> {AbsentPose}
            [] pose = "unset" -> {Segv, AbsentPose} \cup rest

\* The pose of the frame at position frame_idx with respect to the first frame.
FramePose(frames, frame_idx) == ComposeFrom(frames, 1, frame_idx)

\* The call is made for a frame the track holds.
GetFramePose(frame_idx) ==
  /\ pc = "live"
  /\ frame_idx < Len(frames_)
  /\ \E r \in FramePose(frames_, frame_idx) :
       /\ ret' = r
       /\ pc' = IF r = Segv THEN "crashed" ELSE pc
  /\ UNCHANGED <<id_, shared, released, stderr_out,
                 frames_, reconstruction_, needs_cleanup_, track_state_,
                 last_known_motion_time_, fused_frames_, uncertain_frames, reaped>>

-----------------------------------------------------------------------------
(* TrackFrame& GetLastFrame() { return frames_.back(); }                     *)
(* back() of an empty vector is undefined behaviour: the call crashes, or    *)
(* returns a reference to memory that holds no frame.                        *)
LastFrame(frames) ==
  IF Len(frames) > 0 THEN {FrameRet(Len(frames) - 1)} ELSE {Segv, Garbage}

GetLastFrame ==
  /\ pc = "live"
  /\ \E r \in LastFrame(frames_) :
       /\ ret' = r
       /\ pc' = IF r = Segv THEN "crashed" ELSE pc
  /\ UNCHANGED <<id_, shared, released, stderr_out,
                 frames_, reconstruction_, needs_cleanup_, track_state_,
                 last_known_motion_time_, fused_frames_, uncertain_frames, reaped>>

(* assert(frames_.size() > 0 || "Need at least one frame to determine a      *)
(*        track's class.");                                                  *)
(* The right operand is a string literal: an array that converts to a        *)
(* pointer that is not null, which converts to true.                         *)
StringLiteralAsBool == TRUE
ClassNameAssertion(frames) == Len(frames) > 0 \/ StringLiteralAsBool

(* std::string GetClassName() const: the assertion, then                     *)
(* GetLastFrame().instance_view.GetInstanceDetection().GetClassName().       *)
GetClassName ==
  /\ pc = "live"
  /\ IF ~ClassNameAssertion(frames_)
     THEN ret' = NoRet /\ pc' = "aborted"
     ELSE \E r \in LastFrame(frames_) :
            /\ ret' = IF r.kind = "frame" THEN ClassNameRet(r.val) ELSE r
            /\ pc' = IF r = Segv THEN "crashed" ELSE pc
  /\ UNCHANGED <<id_, shared, released, stderr_out,
                 frames_, reconstruction_, needs_cleanup_, track_state_,
                 last_known_motion_time_, fused_frames_, uncertain_frames, reaped>>

-----------------------------------------------------------------------------
\* A destructor that reports every track.
Destroy_AlwaysLogs ==
  /\ pc = "live"
  /\ stderr_out' = Append(stderr_out, id_)
  /\ reconstruction_' = 0
  /\ released' = IF reconstruction_ # 0 /\ reconstruction_ \notin shared
                 THEN released \cup {reconstruction_}
                 ELSE released
  /\ pc' = "destroyed"
  /\ ret' = NoRet
  /\ UNCHANGED <<id_, frames_, needs_cleanup_, track_state_, last_known_motion_time_,
                 fused_frames_, uncertain_frames, reaped, shared>>

(* virtual ~Track(): the diagnostic goes to stderr when reconstruction_ is   *)
(* not null; then the members are destroyed, reconstruction_ among them,     *)
(* which drops the track's hold on the volume and frees the volume when no   *)
(* other shared_ptr holds it.                                                *)
Destroy ==
  /\ pc = "live"
  /\ stderr_out' = IF reconstruction_ # NullVolume
                   THEN Append(stderr_out, id_)
                   ELSE stderr_out
  /\ reconstruction_' = NullVolume
  /\ released' = IF reconstruction_ # NullVolume /\ reconstruction_ \notin shared
                 THEN released \cup {reconstruction_}
                 ELSE released
  /\ pc' = "destroyed"
  /\ ret' = NoRet
  /\ UNCHANGED <<id_, frames_, needs_cleanup_, track_state_, last_known_motion_time_,
                 fused_frames_, uncertain_frames, reaped, shared>>

-----------------------------------------------------------------------------
(* The driver: any public operation, in any order, on a live track.  Frames  *)
(* arrive in frame order (spec.md 5), one frame index after the other, and   *)
(* the driver keeps a shared_ptr of its own to a volume it attaches.         *)
Next ==
  \/ \E f \in NextFrameInputs : Len(frames_) < MaxFrames /\ AddFrame(f)
  \/ \E a \in BOOLEAN, r \in Residuals : Update(a, r)
  \/ \E f \in NextFrameInputs : ScoreMatch(f)
  \/ \E v \in 0..MaxVolumes : AssignReconstruction(v, TRUE)
  \/ \E b \in BOOLEAN : SetNeedsCleanup(b)
  \/ fused_frames_ < MaxFused /\ CountFusedFrame
  \/ ReapReconstruction
  \/ GetFirstFusableFrameIndex
  \/ \E k \in 0..(MaxFrames - 1) : GetFramePose(k)
  \/ GetLastFrame
  \/ GetClassName
  \/ Destroy

Spec == Init /\ [][Next]_vars

(* A driver that hands the track frames with any frame index, in any order,  *)
(* and otherwise matches, updates and queries the frame list.                *)
NextOrder ==
  \/ \E f \in FrameInputs(MaxFrameIdx) : Len(frames_) < MaxOrderFrames /\ AddFrame(f)
  \/ \E a \in BOOLEAN, r \in Residuals : Update(a, r)
  \/ \E f \in FrameInputs(MaxFrameIdx) : ScoreMatch(f)
  \/ GetFirstFusableFrameIndex

SpecOrder == Init /\ [][NextOrder]_vars

(* The driver of the reconstruction lifecycle alone: fusing, reaping and     *)
(* attaching or detaching the volume.                                        *)
NextReap ==
  \/ \E v \in 0..MaxReapVolumes : AssignReconstruction(v, TRUE)
  \/ \E b \in BOOLEAN : SetNeedsCleanup(b)
  \/ fused_frames_ < MaxFusedReap /\ CountFusedFrame
  \/ ReapReconstruction

SpecReap == Init /\ [][NextReap]_vars

(* The driver of the frame list and its queries: frames arrive in frame      *)
(* order, are updated or not, and the track is asked for its first fusable   *)
(* frame, for the pose of a frame, for its last frame and its class name.    *)
NextPose ==
  \/ \E f \in NextFrameInputs : Len(frames_) < MaxPoseFrames /\ AddFrame(f)
  \/ \E a \in BOOLEAN, r \in Residuals : Update(a, r)
  \/ GetFirstFusableFrameIndex
  \/ \E k \in 0..(MaxPoseFrames - 1) : GetFramePose(k)
  \/ GetLastFrame
  \/ GetClassName

SpecPose == Init /\ [][NextPose]_vars

(* The driver of a track that grows long enough to be reconstructed: frames  *)
(* arrive as the constructor of TrackFrame leaves them, are updated or not,  *)
(* and a volume is attached or detached at any time.                         *)
NextEligible ==
  \/ Len(frames_) < MaxEligibleFrames /\ AddFrame(TrackFrame(Len(frames_), "unset"))
  \/ \E a \in BOOLEAN, r \in Residuals : Update(a, r)
  \/ \E v \in 0..MaxVolumes : AssignReconstruction(v, TRUE)

SpecEligible == Init /\ [][NextEligible]_vars

(* The driver of a track's life: a track of any id is constructed, gets      *)
(* frames, has volumes attached and detached that the driver keeps a         *)
(* shared_ptr to or not, is fused into and reaped, and is destroyed.         *)
NextLife ==
  \/ \E f \in NextFrameInputs : Len(frames_) < MaxLifeFrames /\ AddFrame(f)
  \/ \E v \in 0..MaxVolumes, k \in BOOLEAN : AssignReconstruction(v, k)
  \/ \E b \in BOOLEAN : SetNeedsCleanup(b)
  \/ fused_frames_ < MaxFused /\ CountFusedFrame
  \/ ReapReconstruction
  \/ Destroy

SpecLife == InitAnyId /\ [][NextLife]_vars

-----------------------------------------------------------------------------
(* The state machine of Update.                                              *)

\* Update with a relative pose of some residual, and with none.
UpdateAvailable(residual) == Update(TRUE, residual)
UpdateUnavailable == \E r \in Residuals : Update(FALSE, r)

(* C1: a Static track reverts to Uncertain exactly at the Update that makes  *)
(* the run of consecutive Updates without a relative pose exceed 3.  The     *)
(* track enters Static with a run of 0 (from Uncertain, as on a first        *)
(* Update with residual 0.05); in Static an Update without a pose makes the  *)
(* run one longer and keeps the track Static while the run is 1, 2 or 3,     *)
(* and takes it to Uncertain when the run would be 4; an Update with a pose  *)
(* below the threshold keeps it Static and restarts the run at 0.            *)
C1_StaticRevertsAtFourthUnavailable ==
  [][ /\ (track_state_ = kStatic => uncertain_frames \in 0..3)
      /\ (track_state_ = kUncertain /\ UpdateAvailable(5)
            => track_state_' = kStatic /\ uncertain_frames' = 0)
      /\ (track_state_ # kStatic /\ track_state_' = kStatic => uncertain_frames' = 0)
      /\ (track_state_ = kStatic /\ UpdateUnavailable
            => IF uncertain_frames + 1 <= 3
               THEN track_state_' = kStatic /\ uncertain_frames' = uncertain_frames + 1
               ELSE track_state_' = kUncertain)
      /\ \A r \in Residuals :
           track_state_ = kStatic /\ r < 20 /\ UpdateAvailable(r)
             => track_state_' = kStatic /\ uncertain_frames' = 0
    ]_vars

\* C1's case: a Static track after its 3rd consecutive Update without a pose,
\* which a 4th takes to Uncertain.
C1_Witness ==
  /\ track_state_ = kStatic
  /\ uncertain_frames = 3
  /\ ENABLED (UpdateUnavailable /\ track_state_' = kUncertain)

(* C2: from Uncertain one Update with an available relative pose leaves      *)
(* Uncertain in that Update, whatever came before: to Static when the        *)
(* residual is below 0.20, to Dynamic when it is above.                      *)
C2_UncertainLeftByOneAvailableUpdate ==
  [][ \A r \in Residuals :
        track_state_ = kUncertain /\ UpdateAvailable(r)
          => /\ track_state_' # kUncertain
             /\ (r < 20 => track_state_' = kStatic)
             /\ (r > 20 => track_state_' = kDynamic)
    ]_vars

\* C2's case: a track that is Uncertain again after a known motion (it was Static
\* or Dynamic before), and which one Update with a pose takes to either state.
C2_Witness ==
  /\ track_state_ = kUncertain
  /\ last_known_motion_time_ # NoMotionTime
  /\ ENABLED (UpdateAvailable(5) /\ track_state_' = kStatic)
  /\ ENABLED (UpdateAvailable(35) /\ track_state_' = kDynamic)

(* C3: from Static one Update with an available relative pose whose residual *)
(* is above the threshold takes the track to Dynamic in that Update, not     *)
(* through Uncertain, whatever the uncertain-frame counter is.               *)
C3_StaticToDynamicDirectly ==
  [][ \A r \in Residuals :
        track_state_ = kStatic /\ r > 20 /\ UpdateAvailable(r)
          => track_state_' = kDynamic
    ]_vars

\* C3's case: a Static track whose counter is at its largest, taken to Dynamic.
C3_Witness ==
  /\ track_state_ = kStatic
  /\ uncertain_frames = kMaxUncertainFramesStatic
  /\ ENABLED (UpdateAvailable(35) /\ track_state_' = kDynamic)

(* C4: a Dynamic track reverts to Uncertain exactly at the Update that makes *)
(* the run of consecutive Updates without a relative pose exceed 2: it is    *)
(* Dynamic after the 1st and the 2nd and Uncertain after the 3rd, which is   *)
(* fewer than the 4 a Static track takes.                                    *)
C4_DynamicRevertsAtThirdUnavailable ==
  [][ /\ (track_state_ = kDynamic => uncertain_frames \in 0..2)
      /\ (track_state_ # kDynamic /\ track_state_' = kDynamic => uncertain_frames' = 0)
      /\ (track_state_ = kDynamic /\ UpdateUnavailable
            => IF uncertain_frames + 1 <= 2
               THEN track_state_' = kDynamic /\ uncertain_frames' = uncertain_frames + 1
               ELSE track_state_' = kUncertain)
      /\ (track_state_ = kStatic /\ uncertain_frames = 2 /\ UpdateUnavailable
            => track_state_' = kStatic)
    ]_vars

\* C4's case: a Dynamic track after its 2nd consecutive Update without a pose,
\* which a 3rd takes to Uncertain.
C4_Witness ==
  /\ track_state_ = kDynamic
  /\ uncertain_frames = 2
  /\ ENABLED (UpdateUnavailable /\ track_state_' = kUncertain)

(* C5: no step takes the track from Dynamic to Static; an Update in Dynamic  *)
(* with an available pose and a residual below the threshold leaves the      *)
(* track Dynamic and sets the uncertain-frame counter to 0.                  *)
C5_NoDynamicToStatic ==
  [][ /\ (track_state_ = kDynamic => track_state_' # kStatic)
      /\ \A r \in Residuals :
           track_state_ = kDynamic /\ r < 20 /\ UpdateAvailable(r)
             => track_state_' = kDynamic /\ uncertain_frames' = 0
    ]_vars

\* C5's case: a Dynamic track with a counter to reset, which an Update with a
\* low residual leaves Dynamic.
C5_Witness ==
  /\ track_state_ = kDynamic
  /\ uncertain_frames = 1
  /\ ENABLED (UpdateAvailable(5) /\ track_state_' = kDynamic /\ uncertain_frames' = 0)

-----------------------------------------------------------------------------
(* The frame of the operations, and the frame list.                          *)

(* C6: the track state changes only inside Update: a step of any other       *)
(* operation (AddFrame, ScoreMatch, SetNeedsCleanup, CountFusedFrame,        *)
(* ReapReconstruction, assigning through GetReconstruction, a getter)        *)
(* leaves GetState() as it was.                                              *)
C6_StateChangesOnlyInUpdate ==
  [][ GetState' # GetState => \E a \in BOOLEAN, r \in Residuals : Update(a, r) ]_vars

\* C6's case: a track that Update made Dynamic and on which every other operation
\* has acted since or before: a frame added after the last Update (its pose is
\* still unset), the flag set, a frame fused, a volume attached and reaped.
C6_Witness ==
  /\ GetState = kDynamic
  /\ Len(frames_) = 2
  /\ frames_[2].relative_pose = "unset"
  /\ NeedsCleanup
  /\ fused_frames_ = 1
  /\ HasReconstruction
  /\ reaped = 1
  /\ ret.kind = "int"

\* The stored frame indices, in storage order.
NonDecreasing(frames) ==
  \A i \in 1..Len(frames) : \A j \in i..Len(frames) :
    frames[i].frame_idx <= frames[j].frame_idx

\* GetStartTime() <= every stored frame index <= GetEndTime()
WithinStartAndEnd ==
  \A i \in 1..Len(frames_) :
    GetStartTime <= frames_[i].frame_idx /\ frames_[i].frame_idx <= GetEndTime

(* C7, as claimed: for all sequences of AddFrame calls, with any frame       *)
(* indices in any order of arrival, the stored frame indices are             *)
(* non-decreasing in storage order and lie between GetStartTime() and        *)
(* GetEndTime().                                                             *)
C7_SortedForAnyArrivalOrder == NonDecreasing(frames_) /\ WithinStartAndEnd

(* C7, amended: for all sequences of AddFrame calls whose frame indices      *)
(* arrive in non-decreasing order, the stored frame indices are              *)
(* non-decreasing in storage order and lie between GetStartTime() and        *)
(* GetEndTime().  Step by step: AddFrame stores the frame it is given at the *)
(* end, so a track with non-decreasing indices given a frame whose index is  *)
(* not below the last one has non-decreasing indices within its start and    *)
(* end time again, and no other operation changes a stored index.            *)
C7_SortedForInOrderArrival ==
  [][ /\ \A f \in FrameInputs(MaxFrameIdx) :
           /\ AddFrame(f)
           /\ NonDecreasing(frames_)
           /\ (Len(frames_) > 0 => GetEndTime <= f.frame_idx)
           => NonDecreasing(frames_') /\ WithinStartAndEnd'
      /\ (Len(frames_') = Len(frames_)
            => \A i \in 1..Len(frames_) : frames_'[i].frame_idx = frames_[i].frame_idx)
    ]_vars

\* C7's case: two frames that arrived in frame order, the second after the first.
C7_Witness ==
  /\ Len(frames_) = 2
  /\ frames_[1].frame_idx < frames_[2].frame_idx
  /\ NonDecreasing(frames_) /\ WithinStartAndEnd

-----------------------------------------------------------------------------
(* The reap weight.                                                          *)

\* A step of ReapReconstruction on a track that owns a volume.
Reap == HasReconstruction /\ ReapReconstruction

\* clamp(x, 1, 5)
Clamp15(x) == IF x < 1 THEN 1 ELSE IF x > 5 THEN 5 ELSE x

\* 0.33 * n rounded to the nearest integer (no 33n/100 with n < 50 is a tie)
Round033(n) == (33 * n + 50) \div 100

(* C8, as claimed: the weight ReapReconstruction passes to the volume's reap *)
(* is clamp(round(0.33 * fused_frames), 1, 5) with round-to-nearest, which   *)
(* is 1 for 0 and for 3, and 5 for 15.                                       *)
C8_WeightIsRounded ==
  [][ Reap => reaped' = Clamp15(Round033(fused_frames_)) ]_vars

(* C8, amended: the weight ReapReconstruction passes to the volume's reap is *)
(* clamp(floor(0.33 * fused_frames), 1, 5), the conversion to int            *)
(* truncating: 1 for 0 and for 3, and 4 for 15.  By fused_frames: 0..6 give  *)
(* 1 (0.33 * 6 = 1.98), 7..9 give 2, 10..12 give 3, 13..15 give 4            *)
(* (0.33 * 15 = 4.95) and 16 and more give 5.                                *)
C8_WeightIsTruncated ==
  [][ Reap =>
        reaped' = CASE fused_frames_ \in 0..6 -> 1
                    [] fused_frames_ \in 7..9 -> 2
                    [] fused_frames_ \in 10..12 -> 3
                    [] fused_frames_ \in 13..15 -> 4
                    [] fused_frames_ >= 16 -> 5
    ]_vars

\* C8's case: a volume reaped after 15 fused frames, with weight 4.
C8_Witness == HasReconstruction /\ fused_frames_ = 15 /\ reaped = 4

(* C9: the weight ReapReconstruction passes to the volume is an integer in   *)
(* 1..5, and the weights of successive reaps never decrease as               *)
(* CountFusedFrame is called in between.                                     *)
C9_WeightInRangeAndMonotone ==
  [][ /\ (reaped = NoReap \/ reaped \in 1..5)
      /\ (Reap => reaped' \in 1..5)
      /\ reaped' >= reaped
      /\ (CountFusedFrame => ReapWeight(fused_frames_') >= ReapWeight(fused_frames_))
    ]_vars

\* C9's case: a volume reaped at the weight's upper bound, where 0.33 times the
\* count is 6 or more, after it was fused into 20 times.
C9_Witness == HasReconstruction /\ fused_frames_ = 20 /\ reaped = 5

-----------------------------------------------------------------------------
(* The first fusable frame.                                                  *)

\* The storage positions (0-based) whose frame has a present relative pose.
PresentPositions(frames) ==
  {i \in 0..(Len(frames) - 1) : frames[i + 1].relative_pose = "present"}

\* The smallest of a non-empty set of positions.
Smallest(S) == CHOOSE i \in S : \A j \in S : i <= j

(* C10: GetFirstFusableFrameIndex returns -1 when the track has no frames or *)
(* no stored frame has a present relative pose, and otherwise max(0, i - 1)  *)
(* for the smallest storage position i whose frame has a present relative    *)
(* pose.                                                                     *)
C10_FirstFusableFrameIndex ==
  [][ GetFirstFusableFrameIndex =>
        ret' = IF PresentPositions(frames_) = {}
               THEN IntRet(0 - 1)
               ELSE IntRet(Max(0, Smallest(PresentPositions(frames_)) - 1))
    ]_vars

-----------------------------------------------------------------------------
(* Eligibility for reconstruction.                                           *)

(* C11: EligibleForReconstruction() is true exactly when the track holds at  *)
(* least 6 frames: false with 0..5 frames and true with 6 or more, whatever  *)
(* the frames hold, whatever the track's state, whether relative poses are   *)
(* available and whether a reconstruction is attached.  It is a const        *)
(* getter: a value of the state, which evaluating it does not change.        *)
C11_EligibleFromSixFrames ==
  /\ (Len(frames_) \in 0..5 => ~EligibleForReconstruction)
  /\ (Len(frames_) >= 6 => EligibleForReconstruction)

\* C11's case: a track of exactly 6 frames, eligible while Dynamic, with a volume
\* attached already, its first frame without a relative pose and its last frame
\* never updated.
C11_Witness ==
  /\ Len(frames_) = 6
  /\ EligibleForReconstruction
  /\ GetState = kDynamic
  /\ HasReconstruction
  /\ frames_[1].relative_pose = "absent"
  /\ frames_[6].relative_pose = "unset"

-----------------------------------------------------------------------------
(* The pose of a frame with respect to the first frame.                      *)

\* The links of the chain from the first frame up to the frame at position k.
ChainLinks(frames, k) == {frames[i + 1].relative_pose : i \in 1..k}

(* C12: GetFramePose(k) returns absent whenever any inter-frame relative     *)
(* pose on the chain from the first frame up to frame k is absent, even if   *)
(* later poses, that of k included, are present; it returns a present value  *)
(* only when every link of the chain is present.                             *)
C12_AbsentIffSomeLinkAbsent ==
  [][ \A k \in 0..(MaxPoseFrames - 1) :
        GetFramePose(k) =>
          /\ pc' = "live"
          /\ ("absent" \in ChainLinks(frames_, k) => ret' = AbsentPose)
          /\ (ret' = PresentPose => ChainLinks(frames_, k) \subseteq {"present"})
    ]_vars

-----------------------------------------------------------------------------
(* Calls that the track cannot serve.                                        *)

(* C13: GetClassName and GetLastFrame on a track that holds no frames fail   *)
(* loudly, by an assertion failure or an explicit fatal error, instead of    *)
(* reading a frame: on an empty track neither call can end in anything but   *)
(* an abort.                                                                 *)
C13_EmptyTrackFailsLoudly ==
  (pc = "live" /\ Len(frames_) = 0) =>
    /\ ~ENABLED (GetClassName /\ pc' # "aborted")
    /\ ~ENABLED (GetLastFrame /\ pc' # "aborted")

(* C14: ReapReconstruction on a track that owns no reconstruction volume     *)
(* fails as an explicit programming error: no reap request is issued on the  *)
(* missing volume, and the call cannot end in anything but an abort.         *)
C14_ReapWithoutVolumeFails ==
  (pc = "live" /\ ~HasReconstruction) =>
    ~ENABLED (ReapReconstruction /\ pc' # "aborted")

-----------------------------------------------------------------------------
(* The relative pose of a stored frame.                                      *)

(* C17: in every reachable state every stored frame carries a valid          *)
(* relative-pose optional, explicitly present or explicitly absent, a frame  *)
(* appended by AddFrame and not yet updated included, so that                *)
(* GetFirstFusableFrameIndex never reads an unset relative_pose.             *)
C17_EveryFrameHasRelativePose ==
  /\ \A i \in 1..Len(frames_) : frames_[i].relative_pose \in {"present", "absent"}
  /\ ~(ret = Segv /\ pc = "crashed")

-----------------------------------------------------------------------------
(* A track's life: construction, the cleanup flag, the frame list, the count *)
(* of fused frames, destruction.                                             *)

(* C15: a freshly constructed Track, for any id, has state Uncertain and     *)
(* GetSize() = 0, owns no reconstruction, has NeedsCleanup() false, a count  *)
(* of fused frames of 0, and is not eligible for reconstruction.             *)
C15_FreshTrack ==
  \A id \in 0..MaxId :
    Track(id) =>
      /\ GetState = kUncertain
      /\ GetSize = 0
      /\ ~HasReconstruction
      /\ ~NeedsCleanup
      /\ fused_frames_ = 0
      /\ ~EligibleForReconstruction

\* C15's case: the track just constructed with an id that is not the first.
C15_Witness == Track(MaxId) /\ id_ > 0

(* C16: NeedsCleanup() returns the argument of the most recent               *)
(* SetNeedsCleanup, false if there was none: SetNeedsCleanup(b) makes it b,  *)
(* and no step that is not a SetNeedsCleanup changes it, AddFrame, Update,   *)
(* CountFusedFrame, ReapReconstruction and the assignment of the             *)
(* reconstruction included.                                                  *)
C16_CleanupFlagOnlyStored ==
  [][ /\ \A b \in BOOLEAN : SetNeedsCleanup(b) => NeedsCleanup' = b
      /\ (NeedsCleanup' # NeedsCleanup) => \E b \in BOOLEAN : SetNeedsCleanup(b)
    ]_vars

\* C16's case: the flag, set, has stayed set through frames, updates that moved
\* the state, a fused frame and a reap, and the detaching of the volume.
C16_Witness ==
  /\ NeedsCleanup
  /\ Len(frames_) > 0
  /\ GetState # kUncertain
  /\ fused_frames_ > 0
  /\ reaped # NoReap
  /\ ~HasReconstruction
  /\ pc = "live"

(* C18: the frame list is append-only: each AddFrame makes GetSize() one     *)
(* more and puts its frame at the end, no step makes GetSize() less or moves *)
(* a stored frame, and a track that is eligible for reconstruction is        *)
(* eligible after every step.                                                *)
C18_AppendOnly ==
  [][ /\ \A f \in NextFrameInputs :
           AddFrame(f) => /\ GetSize' = GetSize + 1
                          /\ frames_' = Append(frames_, f)
      /\ GetSize' >= GetSize
      /\ \A i \in 1..Len(frames_) : frames_'[i].frame_idx = frames_[i].frame_idx
      /\ EligibleForReconstruction => EligibleForReconstruction'
    ]_vars

\* C18's case: a track that became eligible with its sixth frame and has taken a
\* further frame, an update of that frame and a volume since, its frames in the
\* places they were appended at.
C18_Witness ==
  /\ Len(frames_) > 6
  /\ \A i \in 1..Len(frames_) : frames_[i].frame_idx = i - 1
  /\ frames_[Len(frames_)].relative_pose = "present"
  /\ HasReconstruction
  /\ EligibleForReconstruction

(* C19: the count of fused frames is the number of CountFusedFrame calls     *)
(* since construction: each call adds 1 and changes nothing else, and no     *)
(* step that is not a CountFusedFrame changes the count, ReapReconstruction  *)
(* and the replacing or releasing of the volume included, so that a reap of  *)
(* a newly attached volume takes its weight from the count accumulated on    *)
(* the previous one.                                                         *)
C19_FusedFramesCountsCalls ==
  [][ /\ CountFusedFrame =>
           /\ fused_frames_' = fused_frames_ + 1
           /\ UNCHANGED <<id_, frames_, reconstruction_, needs_cleanup_, track_state_,
                          last_known_motion_time_, uncertain_frames, reaped, shared,
                          released, stderr_out, pc>>
      /\ (fused_frames_' # fused_frames_) => CountFusedFrame
      /\ (ReapReconstruction /\ HasReconstruction) => reaped' = ReapWeight(fused_frames_)
    ]_vars

\* C19's case: 7 frames were fused and a reap was done before the seventh; the
\* volume fused into was replaced by a second one, whose reap has weight 2.
C19_Witness ==
  /\ fused_frames_ = 7
  /\ reaped = 1
  /\ reconstruction_ = 2
  /\ 1 \in shared
  /\ ENABLED (ReapReconstruction /\ reaped' = 2)

(* C20: destroying a Track emits the diagnostic, which names the track's id, *)
(* exactly when the track owns a reconstruction at that moment; in both      *)
(* cases the track's hold on the volume is dropped, and the volume is        *)
(* released only if no other holder remains.                                 *)
C20_DestructionDiagnostic ==
  [][ Destroy =>
        /\ stderr_out' = IF HasReconstruction THEN Append(stderr_out, id_) ELSE stderr_out
        /\ ~HasReconstruction'
        /\ released' = IF HasReconstruction /\ reconstruction_ \notin shared
                       THEN released \cup {reconstruction_}
                       ELSE released
        /\ shared' = shared
    ]_vars

\* C20's case: a track of id 1 was destroyed while it owned a volume that the
\* driver holds too: the diagnostic is out and the volume is not released.
C20_Witness ==
  /\ pc = "destroyed"
  /\ stderr_out = <<1>>
  /\ shared # {}
  /\ released = {}

====
